---- MODULE Spec2Model ----
(***************************************************************************)
(* Comment subsystem of the posting platform: the comments table with its  *)
(* cascading foreign keys, the /api/comments routes (create, update,       *)
(* delete, paginated tree read), comment media and comment reactions.      *)
(* A route handler is one atomic action (the race specification splits     *)
(* POST at its insert); `resp' holds the last request and its JSON answer; *)
(* `card' is the state of the PostCard component that shows the comments.  *)
(***************************************************************************)
EXTENDS Integers, Sequences, FiniteSets, TLC

VARIABLES comments, media, reactions, nextId, nextMediaId, now, resp, inflight,
          card

vars == <<comments, media, reactions, nextId, nextMediaId, now, resp, inflight, card>>

(* ------------------------------ bounds ------------------------------- *)

\* ids handed out by the comments sequence in the depth specification
MaxChainIds == 7
\* posts whose thread grows beyond its root in the depth specification
MaxRepliedPosts == 1
\* comments carrying edited content at once in the depth specification
MaxEdited == 1
\* ids handed out by the comments sequence in the other specifications
MaxComments == 3
\* largest value of the store clock
MaxTime == 1
\* media rows ever uploaded
MaxMedia == 2
\* reaction rows alive at once
MaxReactions == 1
\* media rows ever uploaded in the store specification
MaxStoreMedia == 1
\* largest valid limit / page a reader asks for
MaxLimit == 2
MaxPage == 2

(* ------------------------- program constants ------------------------- *)

MaxDepth == 5
MaxContentLen == 2000
MaxPageLimit == 100
DefaultLimit == 10

\* SQL NULL / JS null-undefined for integer columns and parameters
NULL == 0

\* posts table: comment routes only look posts up
Posts == {1, 2}
PostIdInputs == {1, 2, 3}
Users == {1, 2}

(* ------------------------------ content ------------------------------ *)
\* A string is a sequence of runs [ch, n]: n copies of the character ch.

Run(c, k) == [ch |-> c, n |-> k]

RECURSIVE StrLen(_)
StrLen(s) == IF s = <<>> THEN 0 ELSE Head(s).n + StrLen(Tail(s))

RECURSIVE TrimLeft(_)
TrimLeft(s) ==
  IF s = <<>> THEN <<>>
  ELSE IF Head(s).ch = " " \/ Head(s).n = 0 THEN TrimLeft(Tail(s)) ELSE s

RECURSIVE TrimRight(_)
TrimRight(s) ==
  IF s = <<>> THEN <<>>
  ELSE IF s[Len(s)].ch = " " \/ s[Len(s)].n = 0
       THEN TrimRight(SubSeq(s, 1, Len(s) - 1)) ELSE s

Trim(s) == TrimRight(TrimLeft(s))

\* body('content').trim().isLength({ min: 1, max: 2000 })
ContentValid(raw) == StrLen(Trim(raw)) >= 1 /\ StrLen(Trim(raw)) <= MaxContentLen

TextA == <<Run("a", 1)>>
TextB == <<Run("b", 1)>>

(* ------------------------------- store ------------------------------- *)

HasComment(store, id) == \E c \in store : c.id = id

\* Comment.findById / findByPk (the caller tests HasComment first)
FindById(store, id) == CHOOSE c \in store : c.id = id

ChildrenOf(store, id) == {c \in store : c.parent_id = id}

\* Comment.getCommentDepth: hops from commentId up to a row without parent
RECURSIVE getCommentDepthOff(_, _)
getCommentDepthOff(store, commentId) ==
  IF commentId = NULL THEN 0
  ELSE IF ~HasComment(store, commentId) THEN 0
  ELSE IF FindById(store, commentId).parent_id = NULL THEN 1
  ELSE 1 + getCommentDepthOff(store, FindById(store, commentId).parent_id)

RECURSIVE getCommentDepthAbsentOne(_, _)
getCommentDepthAbsentOne(store, commentId) ==
  IF commentId = NULL THEN 0
  ELSE IF ~HasComment(store, commentId) THEN 1
  ELSE IF FindById(store, commentId).parent_id = NULL THEN 0
  ELSE 1 + getCommentDepthAbsentOne(store, FindById(store, commentId).parent_id)

RECURSIVE getCommentDepth(_, _)
getCommentDepth(store, commentId) ==
  IF commentId = NULL THEN 0
  ELSE IF ~HasComment(store, commentId) THEN 0
  ELSE IF FindById(store, commentId).parent_id = NULL THEN 0
  ELSE 1 + getCommentDepth(store, FindById(store, commentId).parent_id)

\* the Comment.findByPk calls of one getCommentDepth(commentId)
RECURSIVE getCommentDepthReads(_, _)
getCommentDepthReads(store, commentId) ==
  IF commentId = NULL THEN 0
  ELSE IF ~HasComment(store, commentId) THEN 1
  ELSE IF FindById(store, commentId).parent_id = NULL THEN 1
  ELSE 1 + getCommentDepthReads(store, FindById(store, commentId).parent_id)

\* rows removed by ON DELETE CASCADE on comments.parent_id when id goes
RECURSIVE Subtree(_, _)
Subtree(store, id) ==
  {c \in store : c.id = id} \cup
  UNION {Subtree(store, k.id) : k \in ChildrenOf(store, id)}

SubtreeIds(store, id) == {c.id : c \in Subtree(store, id)}

\* Comment.create: the INSERT with the column defaults
NewComment(id, post_id, parent_id, content, t) ==
  [id |-> id, post_id |-> post_id, parent_id |-> parent_id, content |-> content,
   is_published |-> TRUE, created_at |-> t, updated_at |-> t]

TypeOK ==
  /\ \A c \in comments : c.id \in 1..(nextId - 1) /\ c.parent_id \in 0..(nextId - 1)
  /\ \A c, d \in comments : c.id = d.id => c = d
  /\ now >= 0

(* --------------------------- POST /api/comments ---------------------- *)

\* what the handler answers for a request, before it touches the store
PostOutcomeNoPostCheck(store, post_id, content, parent_id) ==
  IF ~ContentValid(content) THEN "VALIDATION_ERROR"
  ELSE IF post_id \notin Posts THEN "NOT_FOUND"
  ELSE IF parent_id = NULL THEN "CREATED"
  ELSE IF ~HasComment(store, parent_id) THEN "NOT_FOUND"
  ELSE IF getCommentDepth(store, parent_id) >= MaxDepth THEN "MAX_DEPTH_EXCEEDED"
  ELSE "CREATED"

PostOutcomeDepthGt(store, post_id, content, parent_id) ==
  IF ~ContentValid(content) THEN "VALIDATION_ERROR"
  ELSE IF post_id \notin Posts THEN "NOT_FOUND"
  ELSE IF parent_id = NULL THEN "CREATED"
  ELSE IF ~HasComment(store, parent_id) THEN "NOT_FOUND"
  ELSE IF FindById(store, parent_id).post_id # post_id THEN "INVALID_PARENT"
  ELSE IF getCommentDepth(store, parent_id) > MaxDepth THEN "MAX_DEPTH_EXCEEDED"
  ELSE "CREATED"

PostOutcomeLookupFirst(store, post_id, content, parent_id) ==
  IF post_id \notin Posts THEN "NOT_FOUND"
  ELSE IF ~ContentValid(content) THEN "VALIDATION_ERROR"
  ELSE IF parent_id = NULL THEN "CREATED"
  ELSE IF ~HasComment(store, parent_id) THEN "NOT_FOUND"
  ELSE IF FindById(store, parent_id).post_id # post_id THEN "INVALID_PARENT"
  ELSE IF getCommentDepth(store, parent_id) >= MaxDepth THEN "MAX_DEPTH_EXCEEDED"
  ELSE "CREATED"

PostOutcomeMissingParentOk(store, post_id, content, parent_id) ==
  IF ~ContentValid(content) THEN "VALIDATION_ERROR"
  ELSE IF post_id \notin Posts THEN "NOT_FOUND"
  ELSE IF parent_id = NULL THEN "CREATED"
  ELSE IF ~HasComment(store, parent_id) THEN "CREATED"
  ELSE IF FindById(store, parent_id).post_id # post_id THEN "INVALID_PARENT"
  ELSE IF getCommentDepth(store, parent_id) >= MaxDepth THEN "MAX_DEPTH_EXCEEDED"
  ELSE "CREATED"

PostOutcomeNoDepthCheck(store, post_id, content, parent_id) ==
  IF ~ContentValid(content) THEN "VALIDATION_ERROR"
  ELSE IF post_id \notin Posts THEN "NOT_FOUND"
  ELSE IF parent_id = NULL THEN "CREATED"
  ELSE IF ~HasComment(store, parent_id) THEN "NOT_FOUND"
  ELSE IF FindById(store, parent_id).post_id # post_id THEN "INVALID_PARENT"
  ELSE "CREATED"

PostOutcome(store, post_id, content, parent_id) ==
  IF ~ContentValid(content) THEN "VALIDATION_ERROR"
  ELSE IF post_id \notin Posts THEN "NOT_FOUND"
  ELSE IF parent_id = NULL THEN "CREATED"
  ELSE IF ~HasComment(store, parent_id) THEN "NOT_FOUND"
  ELSE IF FindById(store, parent_id).post_id # post_id THEN "INVALID_PARENT"
  ELSE IF getCommentDepth(store, parent_id) >= MaxDepth THEN "MAX_DEPTH_EXCEEDED"
  ELSE "CREATED"

StatusOf(type) ==
  CASE type = "CREATED" -> 201
    [] type = "OK" -> 200
    [] type = "NOT_FOUND" -> 404
    [] type = "INTERNAL_ERROR" -> 500
    [] OTHER -> 400

\* the lookups the handler has made when it answers, in order
PostLookups(store, post_id, content, parent_id) ==
  IF ~ContentValid(content) THEN <<>>
  ELSE IF post_id \notin Posts \/ parent_id = NULL THEN <<"Post.findById">>
  ELSE IF ~HasComment(store, parent_id) THEN <<"Post.findById", "Comment.findById">>
  ELSE IF FindById(store, parent_id).post_id # post_id
       THEN <<"Post.findById", "Comment.findById">>
  ELSE <<"Post.findById", "Comment.findById", "Comment.getCommentDepth">>

PostCommentInsertFirst(post_id, content, parent_id) ==
  LET type == PostOutcome(comments, post_id, content, parent_id) IN
  /\ IF ContentValid(content) /\ post_id \in Posts
     THEN /\ comments' = comments \cup
                {NewComment(nextId, post_id, parent_id, Trim(content), now)}
          /\ nextId' = nextId + 1
     ELSE UNCHANGED <<comments, nextId>>
  /\ resp' = [op |-> "POST", type |-> type, status |-> StatusOf(type),
              post_id |-> post_id, parent_id |-> parent_id, content |-> content,
              id |-> IF type = "CREATED" THEN nextId ELSE NULL,
              lookups |-> PostLookups(comments, post_id, content, parent_id)]
  /\ UNCHANGED <<media, reactions, nextMediaId, now, inflight, card>>

PostComment(post_id, content, parent_id) ==
  LET type == PostOutcome(comments, post_id, content, parent_id) IN
  /\ IF type = "CREATED"
     THEN /\ comments' = comments \cup
                {NewComment(nextId, post_id, parent_id, Trim(content), now)}
          /\ nextId' = nextId + 1
     ELSE UNCHANGED <<comments, nextId>>
  /\ resp' = [op |-> "POST", type |-> type, status |-> StatusOf(type),
              post_id |-> post_id, parent_id |-> parent_id, content |-> content,
              id |-> IF type = "CREATED" THEN nextId ELSE NULL,
              lookups |-> PostLookups(comments, post_id, content, parent_id)]
  /\ UNCHANGED <<media, reactions, nextMediaId, now, inflight, card>>

(* POST /api/comments as two steps: the reads of the handler, then the write *)

ForeignKeyOff(store, req) == TRUE

\* comments.parent_id REFERENCES comments(id): the check the INSERT makes
ForeignKeyHolds(store, req) == req.parent_id = NULL \/ HasComment(store, req.parent_id)

\* the handler up to `await Comment.create`: it answers when a check fails,
\* and is left waiting to create the comment when every check passes
PostValidate(post_id, content, parent_id) ==
  LET type == PostOutcome(comments, post_id, content, parent_id) IN
  /\ IF type = "CREATED"
     THEN /\ inflight' = inflight \cup
                {[post_id |-> post_id, parent_id |-> parent_id, content |-> content]}
          /\ UNCHANGED resp
     ELSE /\ resp' = [op |-> "POST", type |-> type, status |-> StatusOf(type),
                      post_id |-> post_id, parent_id |-> parent_id,
                      content |-> content, id |-> NULL,
                      lookups |-> PostLookups(comments, post_id, content, parent_id)]
          /\ UNCHANGED inflight
  /\ UNCHANGED <<comments, media, reactions, nextId, nextMediaId, now, card>>

\* Comment.create and the answer: 201, or 500 from the catch block when the
\* INSERT throws
PostCreate(req) ==
  LET ok == ForeignKeyHolds(comments, req)
      type == IF ok THEN "CREATED" ELSE "INTERNAL_ERROR" IN
  /\ req \in inflight
  /\ inflight' = inflight \ {req}
  /\ IF ok
     THEN /\ comments' = comments \cup
                {NewComment(nextId, req.post_id, req.parent_id, Trim(req.content), now)}
          /\ nextId' = nextId + 1
     ELSE UNCHANGED <<comments, nextId>>
  /\ resp' = [op |-> "POST", type |-> type, status |-> StatusOf(type),
              post_id |-> req.post_id, parent_id |-> req.parent_id,
              content |-> req.content, id |-> IF ok THEN nextId ELSE NULL,
              lookups |-> <<"Post.findById", "Comment.findById",
                            "Comment.getCommentDepth">>]
  /\ UNCHANGED <<media, reactions, nextMediaId, now, card>>

(* --------------------------- PUT /api/comments/:id ------------------- *)

PutCommentReparent(id, content) ==
  LET type == IF ~ContentValid(content) THEN "VALIDATION_ERROR"
              ELSE IF ~HasComment(comments, id) THEN "NOT_FOUND"
              ELSE "OK" IN
  /\ IF type = "OK"
     THEN comments' = {IF c.id = id
                       THEN [c EXCEPT !.content = Trim(content), !.updated_at = now,
                                      !.parent_id = NULL]
                       ELSE c : c \in comments}
     ELSE UNCHANGED comments
  /\ resp' = [op |-> "PUT", type |-> type, status |-> StatusOf(type), id |-> id,
              content |-> content]
  /\ UNCHANGED <<media, reactions, nextId, nextMediaId, now, inflight, card>>

PutComment(id, content) ==
  LET type == IF ~ContentValid(content) THEN "VALIDATION_ERROR"
              ELSE IF ~HasComment(comments, id) THEN "NOT_FOUND"
              ELSE "OK" IN
  /\ IF type = "OK"
     THEN comments' = {IF c.id = id
                       THEN [c EXCEPT !.content = Trim(content), !.updated_at = now]
                       ELSE c : c \in comments}
     ELSE UNCHANGED comments
  /\ resp' = [op |-> "PUT", type |-> type, status |-> StatusOf(type), id |-> id,
              content |-> content]
  /\ UNCHANGED <<media, reactions, nextId, nextMediaId, now, inflight, card>>

(* -------------------------- DELETE /api/comments/:id ----------------- *)

\* Comment.delete: the DELETE and the cascades it triggers
CascadeDirectOnly(store, id) == {c \in store : c.id = id} \cup ChildrenOf(store, id)

CascadeDelete(store, id) == Subtree(store, id)

ReplyCountSubtree(store, id) == Cardinality(Subtree(store, id)) - 1

\* SELECT COUNT(*) as count FROM comments WHERE parent_id = $1
ReplyCount(store, id) == Cardinality(ChildrenOf(store, id))

DeleteMessageAlways(replyCount) ==
  [text |-> "Comment deleted successfully", along_with |-> <<replyCount>>]

\* `Comment deleted successfully${replyCount > 0 ? ` along with ${replyCount}
\* replies` : ''}`: along_with holds the number the suffix prints, and is empty
\* when the message has no suffix
DeleteMessage(replyCount) ==
  [text |-> "Comment deleted successfully",
   along_with |-> IF replyCount > 0 THEN <<replyCount>> ELSE <<>>]

NoMessage == [text |-> "Comment not found", along_with |-> <<>>]

DeleteComment(id) ==
  LET found == HasComment(comments, id)
      gone == IF found THEN CascadeDelete(comments, id) ELSE {}
      goneIds == {c.id : c \in gone} IN
  /\ comments' = comments \ gone
  /\ media' = {m \in media : m.comment_id \notin goneIds}
  /\ reactions' = {r \in reactions : r.comment_id \notin goneIds}
  /\ resp' = [op |-> "DELETE", type |-> IF found THEN "OK" ELSE "NOT_FOUND",
              status |-> IF found THEN 200 ELSE 404, id |-> id,
              replyCount |-> IF found THEN ReplyCount(comments, id) ELSE 0,
              message |-> IF found THEN DeleteMessage(ReplyCount(comments, id))
                          ELSE NoMessage]
  /\ UNCHANGED <<nextId, nextMediaId, now, inflight, card>>

(* ---------------------------- POST /api/media/upload ----------------- *)

\* Media.create for each uploaded file, attached to comment_id
NewMediaRows(comment_id, first, files) ==
  {[id |-> k, comment_id |-> comment_id] : k \in first..(first + files - 1)}

UploadMedia(comment_id, files) ==
  LET found == HasComment(comments, comment_id) IN
  /\ IF found
     THEN /\ media' = media \cup NewMediaRows(comment_id, nextMediaId, files)
          /\ nextMediaId' = nextMediaId + files
     ELSE UNCHANGED <<media, nextMediaId>>
  /\ resp' = [op |-> "UPLOAD", type |-> IF found THEN "CREATED" ELSE "NOT_FOUND",
              status |-> IF found THEN 201 ELSE 404, id |-> comment_id]
  /\ UNCHANGED <<comments, reactions, nextId, now, inflight, card>>

(* --------------------- POST /api/reactions/comment/:commentId -------- *)

\* the emoji a client sends, after normalizeEmoji
Emojis == {[name |-> "like", unicode |-> "U+1F44D"],
           [name |-> "love", unicode |-> "U+2764"]}

\* Reaction.getUserCommentReaction
UserCommentReactions(userId, commentId) ==
  {r \in reactions : r.user_id = userId /\ r.comment_id = commentId}

toggleCommentReactionKeepOld(userId, commentId, emoji, existing) ==
  LET new == [user_id |-> userId, comment_id |-> commentId,
              emoji_name |-> emoji.name, emoji_unicode |-> emoji.unicode] IN
  IF existing = {}
  THEN [action |-> "added", rows |-> reactions \cup {new}]
  ELSE LET e == CHOOSE r \in existing : TRUE IN
       IF e.emoji_unicode = emoji.unicode
       THEN [action |-> "removed", rows |-> reactions \ {e}]
       ELSE [action |-> "updated", rows |-> reactions \cup {new}]

\* Reaction.toggleCommentReaction; existing is the row findOne returned
toggleCommentReaction(userId, commentId, emoji, existing) ==
  IF existing = {}
  THEN [action |-> "added",
        rows |-> reactions \cup {[user_id |-> userId, comment_id |-> commentId,
                                  emoji_name |-> emoji.name,
                                  emoji_unicode |-> emoji.unicode]}]
  ELSE LET e == CHOOSE r \in existing : TRUE IN
       IF e.emoji_unicode = emoji.unicode
       THEN [action |-> "removed", rows |-> reactions \ {e}]
       ELSE [action |-> "updated",
             rows |-> (reactions \ {e}) \cup
                        {[e EXCEPT !.emoji_name = emoji.name,
                                   !.emoji_unicode = emoji.unicode]}]

ReactToComment(userId, commentId, emoji) ==
  LET found == HasComment(comments, commentId)
      mine == UserCommentReactions(userId, commentId) IN
  /\ IF found
     THEN \E existing \in (IF mine = {} THEN {{}} ELSE {{r} : r \in mine}) :
            LET t == toggleCommentReaction(userId, commentId, emoji, existing) IN
            /\ reactions' = t.rows
            /\ resp' = [op |-> "REACT", type |-> "OK", status |-> 200,
                        id |-> commentId, user_id |-> userId, emoji |-> emoji,
                        action |-> t.action]
     ELSE /\ UNCHANGED reactions
          /\ resp' = [op |-> "REACT", type |-> "NOT_FOUND", status |-> 404,
                      id |-> commentId, user_id |-> userId, emoji |-> emoji,
                      action |-> "none"]
  /\ UNCHANGED <<comments, media, nextId, nextMediaId, now, inflight, card>>

(* ------------------------ GET /api/comments/post/:postId ------------- *)

\* a query parameter the client left out
Absent == -1

QueryValidAnyLimit(q) ==
  /\ q.sort \in {"absent", "newest", "oldest"}
  /\ q.limit = Absent \/ q.limit >= 1
  /\ q.page = Absent \/ q.page >= 1

\* param/query validators of the route
QueryValid(q) ==
  /\ q.sort \in {"absent", "newest", "oldest"}
  /\ q.limit = Absent \/ (q.limit >= 1 /\ q.limit <= MaxPageLimit)
  /\ q.page = Absent \/ q.page >= 1

SortOf(q) == IF q.sort = "absent" THEN "oldest" ELSE q.sort
LimitOf(q) == IF q.limit = Absent THEN DefaultLimit ELSE q.limit
PageOf(q) == IF q.page = Absent THEN 1 ELSE q.page

OrderDirectionAsc(sort) == "ASC"

\* orderDirection = sort === 'newest' ? 'DESC' : 'ASC'
OrderDirection(sort) == IF sort = "newest" THEN "DESC" ELSE "ASC"

\* LEFT JOIN media m ON c.id = m.comment_id: one row per media row of the
\* comment, one row with a null media_id when it has none
JoinMedia(cs) ==
  UNION {IF \E m \in media : m.comment_id = c.id
         THEN {[c |-> c, media_id |-> m.id] : m \in {x \in media : x.comment_id = c.id}}
         ELSE {[c |-> c, media_id |-> NULL]} : c \in cs}

\* Sequelize findAll with include: one instance per comment
NoJoin(cs) == {[c |-> c, media_id |-> NULL] : c \in cs}

\* rows with equal created_at come in any order
RECURSIVE AnyOrder(_)
AnyOrder(rows) ==
  IF rows = {} THEN {<<>>}
  ELSE UNION {{<<r>> \o t : t \in AnyOrder(rows \ {r})} : r \in rows}

\* the orders of the rows created from lo to hi: the earlier half before the
\* later half for ASC, after it for DESC
RECURSIVE OrderRange(_, _, _, _)
OrderRange(rows, dir, lo, hi) ==
  IF rows = {} THEN {<<>>}
  ELSE IF lo = hi THEN AnyOrder(rows)
  ELSE LET mid == (lo + hi) \div 2
           early == OrderRange({r \in rows : r.c.created_at <= mid}, dir, lo, mid)
           late == OrderRange({r \in rows : r.c.created_at > mid}, dir, mid + 1, hi) IN
       IF dir = "DESC" THEN {b \o a : a \in early, b \in late}
       ELSE {a \o b : a \in early, b \in late}

\* ORDER BY c.created_at dir: every order of the rows the sort key allows
OrderBy(rows, dir) ==
  IF rows = {} THEN {<<>>}
  ELSE LET times == {r.c.created_at : r \in rows} IN
       OrderRange(rows, dir, CHOOSE t \in times : \A u \in times : t <= u,
                             CHOOSE t \in times : \A u \in times : t >= u)

Min(a, b) == IF a <= b THEN a ELSE b

\* LIMIT limit OFFSET offset
LimitOffset(seq, limit, offset) == SubSeq(seq, offset + 1, Min(Len(seq), offset + limit))

TopLevelAll(store, postId) ==
  {c \in store : c.post_id = postId /\ c.is_published}

\* WHERE c.post_id = $1 AND c.is_published = true AND c.parent_id IS NULL
TopLevel(store, postId) ==
  {c \in store : c.post_id = postId /\ c.is_published /\ c.parent_id = NULL}

\* WHERE c.parent_id = ANY($1) AND c.is_published = true
RepliesOf(store, commentIds) ==
  {c \in store : c.parent_id \in commentIds /\ c.is_published}

ReactionCountsAnyEmoji(id) ==
  {[emoji_name |-> n,
    count |-> Cardinality({r \in reactions : r.comment_id = id})] :
   n \in {r.emoji_name : r \in {x \in reactions : x.comment_id = id}}}

\* GROUP BY comment_id, emoji_name with COUNT(*), for one comment: the entries
\* of its reaction_counts list (their order, count DESC, is left out)
ReactionCounts(id) ==
  {[emoji_name |-> n,
    count |-> Cardinality({r \in reactions : r.comment_id = id /\ r.emoji_name = n})] :
   n \in {r.emoji_name : r \in {x \in reactions : x.comment_id = id}}}

(* tree build: rows[k] is the k-th processed comment object *)

InMap(rows, id) == \E k \in 1..Len(rows) : rows[k].c.id = id

\* commentMap.get(id): Map.set keeps the last object stored under an id
MapGet(rows, id) ==
  CHOOSE k \in 1..Len(rows) :
    rows[k].c.id = id /\ \A j \in (k + 1)..Len(rows) : rows[j].c.id # id

\* the indexes of ks from lo to hi, ascending
RECURSIVE IdxRange(_, _, _)
IdxRange(ks, lo, hi) ==
  IF lo > hi THEN <<>>
  ELSE IF lo = hi THEN (IF lo \in ks THEN <<lo>> ELSE <<>>)
  ELSE LET mid == (lo + hi) \div 2 IN
       IdxRange(ks, lo, mid) \o IdxRange(ks, mid + 1, hi)

\* forEach visits the processed comments in array order
InArrayOrder(rows, ks) == IdxRange(ks, 1, Len(rows))

\* rootComments.push(comment) for every comment without parent_id
RootIdx(rows) == InArrayOrder(rows, {k \in 1..Len(rows) : rows[k].c.parent_id = NULL})

\* parent.replies.push(comment) for every comment whose parent is in the map
ReplyIdx(rows, p) ==
  InArrayOrder(rows, {k \in 1..Len(rows) :
                  /\ rows[k].c.parent_id # NULL
                  /\ InMap(rows, rows[k].c.parent_id)
                  /\ MapGet(rows, rows[k].c.parent_id) = p})

\* the comparator of replies.sort: a goes before b
SortsBefore(rows, a, b, sort) ==
  IF sort = "newest" THEN rows[a].c.created_at > rows[b].c.created_at
  ELSE rows[a].c.created_at < rows[b].c.created_at

RECURSIVE InsertIdx(_, _, _, _)
InsertIdx(rows, sorted, x, sort) ==
  IF sorted = <<>> THEN <<x>>
  ELSE IF SortsBefore(rows, x, Head(sorted), sort) THEN <<x>> \o sorted
  ELSE <<Head(sorted)>> \o InsertIdx(rows, Tail(sorted), x, sort)

\* Array.prototype.sort with the comparator: stable
RECURSIVE SortIdx(_, _, _)
SortIdx(rows, idx, sort) ==
  IF idx = <<>> THEN <<>>
  ELSE InsertIdx(rows, SortIdx(rows, SubSeq(idx, 1, Len(idx) - 1), sort),
                 idx[Len(idx)], sort)

\* the comment object sent in the answer, with its sorted replies
RECURSIVE Node(_, _, _)
Node(rows, k, sort) ==
  LET kids == SortIdx(rows, ReplyIdx(rows, k), sort) IN
  [id |-> rows[k].c.id, parent_id |-> rows[k].c.parent_id,
   created_at |-> rows[k].c.created_at,
   reaction_counts |-> ReactionCounts(rows[k].c.id),
   replies |-> [i \in 1..Len(kids) |-> Node(rows, kids[i], sort)]]

BuildTree(rows, sort) ==
  LET roots == RootIdx(rows) IN [i \in 1..Len(roots) |-> Node(rows, roots[i], sort)]

CeilDiv(a, b) == IF a % b = 0 THEN a \div b ELSE (a \div b) + 1

TotalCountAll(store, postId) == Cardinality(TopLevelAll(store, postId))

\* SELECT COUNT(*) ... AND c.parent_id IS NULL
TotalCount(store, postId) == Cardinality(TopLevel(store, postId))

PaginationNextLe(store, q) ==
  LET totalCount == TotalCount(store, q.post_id)
      totalPages == CeilDiv(totalCount, LimitOf(q)) IN
  [current_page |-> PageOf(q), total_pages |-> totalPages, total_count |-> totalCount,
   limit |-> LimitOf(q), has_next_page |-> PageOf(q) <= totalPages,
   has_prev_page |-> PageOf(q) > 1]

\* total_count, total_pages, has_next_page, has_prev_page
Pagination(store, q) ==
  LET totalCount == TotalCount(store, q.post_id)
      totalPages == CeilDiv(totalCount, LimitOf(q)) IN
  [current_page |-> PageOf(q), total_pages |-> totalPages, total_count |-> totalCount,
   limit |-> LimitOf(q), has_next_page |-> PageOf(q) < totalPages,
   has_prev_page |-> PageOf(q) > 1]

NoPagination ==
  [current_page |-> 0, total_pages |-> 0, total_count |-> 0, limit |-> 0,
   has_next_page |-> FALSE, has_prev_page |-> FALSE]

\* the reads the handler has made when it answers, in order
GetLookups(store, q) ==
  IF ~QueryValid(q) THEN <<>>
  ELSE IF q.post_id \notin Posts THEN <<"Post.findById">>
  ELSE <<"Post.findById", "COUNT comments", "SELECT comments">>

GetPostComments(q) ==
  LET type == IF ~QueryValid(q) THEN "VALIDATION_ERROR"
              ELSE IF q.post_id \notin Posts THEN "NOT_FOUND" ELSE "OK"
      dir == OrderDirection(SortOf(q))
      offset == (PageOf(q) - 1) * LimitOf(q) IN
  /\ IF type = "OK"
     THEN \E top \in OrderBy(JoinMedia(TopLevel(comments, q.post_id)), dir) :
            LET page == LimitOffset(top, LimitOf(q), offset)
                commentIds == {page[k].c.id : k \in 1..Len(page)} IN
            \E replies \in OrderBy(JoinMedia(RepliesOf(comments, commentIds)), dir) :
              resp' = [op |-> "GET_TREE", type |-> type, status |-> 200, q |-> q,
                       comments |-> BuildTree(page \o replies, SortOf(q)),
                       pagination |-> Pagination(comments, q),
                       lookups |-> GetLookups(comments, q)]
     ELSE resp' = [op |-> "GET_TREE", type |-> type, status |-> StatusOf(type),
                   q |-> q, comments |-> <<>>, pagination |-> NoPagination,
                   lookups |-> GetLookups(comments, q)]
  /\ UNCHANGED <<comments, media, reactions, nextId, nextMediaId, now, inflight, card>>

(* ---------- GET /api/comments/post/:postId, Sequelize router ---------- *)

DefaultLimitAll == 50

\* validators of the Sequelize router: sort and limit only
QueryValidAll(q) ==
  /\ q.sort \in {"absent", "newest", "oldest"}
  /\ q.limit = Absent \/ (q.limit >= 1 /\ q.limit <= MaxPageLimit)

\* the rows handed to the tree build, as the builder sees them
FlatOf(rows) == [k \in 1..Len(rows) |-> [id |-> rows[k].c.id, parent_id |-> rows[k].c.parent_id]]

\* Comment.findAll({ where: { post_id, is_published: true }, limit, order })
GetPostCommentsAll(q) ==
  LET type == IF ~QueryValidAll(q) THEN "VALIDATION_ERROR"
              ELSE IF q.post_id \notin Posts THEN "NOT_FOUND" ELSE "OK"
      limit == IF q.limit = Absent THEN DefaultLimitAll ELSE q.limit IN
  /\ IF type = "OK"
     THEN \E all \in OrderBy(NoJoin(TopLevelAll(comments, q.post_id)),
                             OrderDirection(SortOf(q))) :
            LET rows == LimitOffset(all, limit, 0) IN
            resp' = [op |-> "GET_ALL", type |-> type, status |-> 200, q |-> q,
                     flat |-> FlatOf(rows),
                     comments |-> BuildTree(rows, SortOf(q)),
                     total_count |-> Len(rows)]
     ELSE resp' = [op |-> "GET_ALL", type |-> type, status |-> StatusOf(type),
                   q |-> q, flat |-> <<>>, comments |-> <<>>, total_count |-> 0]
  /\ UNCHANGED <<comments, media, reactions, nextId, nextMediaId, now, inflight, card>>

(* ------------------------ GET /api/comments/:id/replies -------------- *)

MaxRepliesLimit == 50
DefaultRepliesLimit == 20

\* query validators of the replies route
RepliesQueryValid(sort, limit) ==
  /\ sort \in {"absent", "newest", "oldest"}
  /\ limit = Absent \/ (limit >= 1 /\ limit <= MaxRepliesLimit)

\* WHERE c.parent_id = $1 AND c.is_published = true
DirectReplies(store, id) == {c \in store : c.parent_id = id /\ c.is_published}

\* the reply objects of the answer: no nesting, each with its reaction counts
ReplyList(rows) ==
  [k \in 1..Len(rows) |->
     [id |-> rows[k].c.id, parent_id |-> rows[k].c.parent_id,
      created_at |-> rows[k].c.created_at,
      reaction_counts |-> ReactionCounts(rows[k].c.id)]]

GetReplies(id, sort, limit) ==
  LET type == IF ~RepliesQueryValid(sort, limit) THEN "VALIDATION_ERROR"
              ELSE IF ~HasComment(comments, id) THEN "NOT_FOUND" ELSE "OK"
      s == IF sort = "absent" THEN "oldest" ELSE sort
      l == IF limit = Absent THEN DefaultRepliesLimit ELSE limit IN
  /\ IF type = "OK"
     THEN \E all \in OrderBy(JoinMedia(DirectReplies(comments, id)), OrderDirection(s)) :
            LET rows == LimitOffset(all, l, 0) IN
            resp' = [op |-> "GET_REPLIES", type |-> type, status |-> 200, id |-> id,
                     sort |-> s, limit |-> l, replies |-> ReplyList(rows),
                     total_count |-> Len(rows)]
     ELSE resp' = [op |-> "GET_REPLIES", type |-> type, status |-> StatusOf(type),
                   id |-> id, sort |-> s, limit |-> l, replies |-> <<>>,
                   total_count |-> 0]
  /\ UNCHANGED <<comments, media, reactions, nextId, nextMediaId, now, inflight, card>>

\* the clock of the store moves between requests
Tick ==
  /\ now < MaxTime
  /\ now' = now + 1
  /\ UNCHANGED <<comments, media, reactions, nextId, nextMediaId, resp, inflight, card>>

(* ------------------------------ initial ------------------------------ *)

\* the component before its first render of the comments
NoCard == [op |-> "NONE"]

NoResp == [op |-> "NONE", type |-> "NONE", status |-> 0]

Init ==
  /\ comments = {}
  /\ media = {}
  /\ reactions = {}
  /\ nextId = 1
  /\ nextMediaId = 1
  /\ now = 0
  /\ resp = NoResp
  /\ inflight = {}
  /\ card = NoCard

(* ----------------- depth specification: create/update/delete --------- *)
\* The clients of this specification build one thread per post: a new root
\* goes to a post without comments, a reply goes to a comment without replies,
\* and at most MaxRepliedPosts posts hold replies at a time.
\* Requests the handler rejects are not restricted.

\* ids a client names: every stored comment and one id that names no row
IdInputs == {c.id : c \in comments} \cup {nextId}

\* posts whose thread has a reply
RepliedPosts == {c.post_id : c \in {d \in comments : d.parent_id # NULL}}

ThreadShaped(post_id, parent_id) ==
  IF parent_id = NULL
  THEN \A c \in comments : c.post_id # post_id
  ELSE /\ ChildrenOf(comments, parent_id) = {}
       /\ Cardinality(RepliedPosts \cup {post_id}) <= MaxRepliedPosts

DepthPost ==
  \E post_id \in PostIdInputs, parent_id \in {NULL} \cup IdInputs :
    /\ PostOutcome(comments, post_id, TextA, parent_id) = "CREATED"
         => nextId <= MaxChainIds /\ ThreadShaped(post_id, parent_id)
    /\ PostComment(post_id, TextA, parent_id)

DepthPut ==
  /\ Cardinality({c \in comments : c.content # TextA}) < MaxEdited
  /\ \E id \in IdInputs : PutComment(id, TextB)

DepthDelete == \E id \in IdInputs : DeleteComment(id)

NextDepth == DepthPost \/ DepthPut \/ DepthDelete

SpecDepth == Init /\ [][NextDepth]_vars

(* ------------------------ depth and parent claims -------------------- *)

\* proper ancestors of comment id: the rows its parent_id chain names
RECURSIVE AncestorIds(_, _)
AncestorIds(store, id) ==
  IF ~HasComment(store, id) THEN {}
  ELSE LET p == FindById(store, id).parent_id IN
       IF p = NULL \/ ~HasComment(store, p) THEN {}
       ELSE {p} \cup AncestorIds(store, p)

Hops(store, id) == Cardinality(AncestorIds(store, id))

DepthAtMostFive == \A c \in comments : Hops(comments, c.id) <= 5

\* this step is a POST /api/comments that names a stored parent
PostOnParent ==
  /\ resp'.op = "POST"
  /\ resp'.parent_id # NULL
  /\ HasComment(comments, resp'.parent_id)

PostRejected == resp'.type # "CREATED" /\ comments' = comments /\ nextId' = nextId

PassesEarlierChecks ==
  /\ ContentValid(resp'.content)
  /\ resp'.post_id \in Posts
  /\ FindById(comments, resp'.parent_id).post_id = resp'.post_id

\* C1 as stated: no stored comment is more than 5 parent_id hops below its
\* root, and every POST whose parent is at depth 5 is answered
\* MAX_DEPTH_EXCEEDED.
C1_Original ==
  /\ []DepthAtMostFive
  /\ [][(PostOnParent /\ Hops(comments, resp'.parent_id) = 5)
          => resp'.type = "MAX_DEPTH_EXCEEDED"]_vars

\* C1 amended: no stored comment is more than 5 parent_id hops below its
\* root; every POST whose parent is at depth 5 is rejected and stores nothing,
\* and it is answered MAX_DEPTH_EXCEEDED when the content is valid, the post
\* exists and the parent is on that post (the earlier checks answer first
\* otherwise).
C1_DepthInvariant ==
  /\ []DepthAtMostFive
  /\ [][(PostOnParent /\ Hops(comments, resp'.parent_id) = 5)
          => /\ PostRejected
             /\ PassesEarlierChecks => resp'.type = "MAX_DEPTH_EXCEEDED"]_vars

C1_Witness ==
  /\ resp.op = "POST" /\ resp.type = "MAX_DEPTH_EXCEEDED"
  /\ HasComment(comments, resp.parent_id)
  /\ Hops(comments, resp.parent_id) = 5

SamePostAsParent ==
  \A c \in comments :
    c.parent_id # NULL =>
      /\ HasComment(comments, c.parent_id)
      /\ FindById(comments, c.parent_id).post_id = c.post_id

ParentOnOtherPost == FindById(comments, resp'.parent_id).post_id # resp'.post_id

InvalidParentAnswer ==
  /\ resp'.type = "INVALID_PARENT" /\ resp'.status = 400
  /\ comments' = comments /\ nextId' = nextId

\* C2 as stated: every reply has its parent's post_id, and every POST whose
\* parent is on another post than the request's post_id is answered 400
\* INVALID_PARENT and creates no row.
C2_Original ==
  /\ []SamePostAsParent
  /\ [][(PostOnParent /\ ParentOnOtherPost) => InvalidParentAnswer]_vars

\* C2 amended: every reply has its parent's post_id; a POST whose parent is
\* on another post than the request's post_id creates no row, and is answered
\* 400 INVALID_PARENT when its content is valid and its post_id names an
\* existing post.
C2_SamePost ==
  /\ []SamePostAsParent
  /\ [][(PostOnParent /\ ParentOnOtherPost)
          => /\ PostRejected
             /\ (ContentValid(resp'.content) /\ resp'.post_id \in Posts)
                  => InvalidParentAnswer]_vars

C2_Witness ==
  /\ resp.op = "POST" /\ resp.type = "INVALID_PARENT"
  /\ resp.post_id \in Posts
  /\ \E c \in comments : c.parent_id # NULL

\* C3: for valid content, an existing post and a parent on that post, the
\* reply is created exactly when the parent is 0..4 hops deep (and lands 1..5
\* hops deep), and answered MAX_DEPTH_EXCEEDED exactly when the parent is 5
\* hops deep.
C3_DepthBoundary ==
  [][(PostOnParent /\ PassesEarlierChecks)
       => LET d == Hops(comments, resp'.parent_id) IN
          /\ (d \in 0..4) <=> (resp'.type = "CREATED")
          /\ (d = 5) <=> (resp'.type = "MAX_DEPTH_EXCEEDED")
          /\ resp'.type = "CREATED"
               => /\ comments' = comments \cup {FindById(comments', resp'.id)}
                  /\ FindById(comments', resp'.id).parent_id = resp'.parent_id
                  /\ Hops(comments', resp'.id) = d + 1
                  /\ Hops(comments', resp'.id) \in 1..5]_vars

\* the reply G below F has just been created 5 hops deep
C3_Witness ==
  /\ resp.op = "POST" /\ resp.type = "CREATED" /\ resp.parent_id # NULL
  /\ HasComment(comments, resp.id)
  /\ Hops(comments, resp.id) = 5

(* --------------- store specification: comments, media, reactions ----- *)

StorePost ==
  \E post_id \in PostIdInputs, parent_id \in {NULL} \cup IdInputs :
    /\ PostOutcome(comments, post_id, TextA, parent_id) = "CREATED"
         => nextId <= MaxComments
    /\ PostComment(post_id, TextA, parent_id)

StoreDelete == \E id \in IdInputs : DeleteComment(id)

StoreUpload ==
  \E id \in IdInputs, files \in 1..2 :
    /\ HasComment(comments, id) => nextMediaId + files - 1 <= MaxStoreMedia
    /\ UploadMedia(id, files)

StoreReact ==
  \E u \in Users, id \in IdInputs, e \in Emojis :
    /\ (HasComment(comments, id) /\ UserCommentReactions(u, id) = {})
         => Cardinality(reactions) < MaxReactions
    /\ ReactToComment(u, id, e)

NextStore == StorePost \/ StoreDelete \/ StoreUpload \/ StoreReact

SpecStore == Init /\ [][NextStore]_vars

(* ------------------------------ cascade claim ------------------------ *)

\* descendants of id, found by growing the set of rows whose parent is in it
RECURSIVE Below(_, _)
Below(store, ids) ==
  LET more == ids \cup {c.id : c \in {d \in store : d.parent_id \in ids}} IN
  IF more = ids THEN ids ELSE Below(store, more)

DeleteSucceeds ==
  /\ resp'.op = "DELETE" /\ resp'.type = "OK"
  /\ HasComment(comments, resp'.id)

Query(p, s, l, g) == [post_id |-> p, sort |-> s, limit |-> l, page |-> g]

\* requests the validators pass, and one request per rejected parameter
ReadQueries ==
  {Query(p, s, l, g) : p \in Posts, s \in {"newest", "oldest"},
                       l \in 1..MaxLimit, g \in 1..MaxPage}
  \cup {Query(3, "absent", Absent, Absent), Query(1, "absent", Absent, Absent),
        Query(1, "random", Absent, Absent), Query(1, "oldest", 0, Absent),
        Query(1, "oldest", MaxPageLimit + 1, Absent), Query(1, "oldest", Absent, 0)}

\* ids of the stored comments
LiveIds == {c.id : c \in comments}

\* the writers of this specification name existing posts and comments
ReadPost ==
  \E post_id \in Posts, parent_id \in {NULL} \cup LiveIds :
    /\ PostOutcome(comments, post_id, TextA, parent_id) = "CREATED"
         => nextId <= MaxComments
    /\ PostComment(post_id, TextA, parent_id)

ReadDelete == \E id \in LiveIds : DeleteComment(id)

ReadUpload ==
  \E id \in LiveIds, files \in 1..2 :
    /\ nextMediaId + files - 1 <= MaxMedia
    /\ UploadMedia(id, files)

ReadGet == \E q \in ReadQueries : GetPostComments(q)

Next == ReadPost \/ ReadDelete \/ ReadUpload \/ ReadGet \/ Tick

Spec == Init /\ [][Next]_vars

(* -------- tree specification: the tree build over fetched rows ------- *)

TreeQueries ==
  {Query(p, s, l, Absent) : p \in Posts, s \in {"newest", "oldest"},
                            l \in (1..MaxLimit) \cup {Absent}}
  \cup {Query(3, "absent", Absent, Absent), Query(1, "random", Absent, Absent),
        Query(1, "oldest", 0, Absent)}

TreePost ==
  \E post_id \in Posts, parent_id \in {NULL} \cup LiveIds :
    /\ PostOutcome(comments, post_id, TextA, parent_id) = "CREATED"
         => nextId <= MaxComments
    /\ PostComment(post_id, TextA, parent_id)

TreeDelete == \E id \in LiveIds : DeleteComment(id)

TreeGet == \E q \in TreeQueries : GetPostCommentsAll(q)

NextTree == TreePost \/ TreeDelete \/ TreeGet \/ Tick

SpecTree == Init /\ [][NextTree]_vars

(* ------------------------------ tree claims -------------------------- *)

\* pre-order flattening of a forest of answer nodes
RECURSIVE Preorder(_)
Preorder(forest) ==
  IF Len(forest) = 0 THEN <<>>
  ELSE <<[id |-> forest[1].id, parent_id |-> forest[1].parent_id,
          created_at |-> forest[1].created_at]>>
       \o Preorder(forest[1].replies)
       \o Preorder([i \in 1..(Len(forest) - 1) |-> forest[i + 1]])

Occurrences(seq, id) == Cardinality({k \in 1..Len(seq) : seq[k].id = id})

TreeAnswer == resp.op = "GET_ALL" /\ resp.type = "OK"

\* C6: a fetched comment whose parent_id names no fetched comment is put in
\* the root list of the answer.
C6_OrphanBecomesRoot ==
  TreeAnswer =>
    \A k \in 1..Len(resp.flat) :
      (resp.flat[k].parent_id # NULL /\
       \A j \in 1..Len(resp.flat) : resp.flat[j].id # resp.flat[k].parent_id)
        => \E i \in 1..Len(resp.comments) : resp.comments[i].id = resp.flat[k].id

\* C7: the pre-order flattening of the built forest holds every fetched
\* comment exactly as often as the fetched rows do, parents before children.
C7_RoundTrip ==
  TreeAnswer =>
    LET out == Preorder(resp.comments) IN
    /\ Len(out) = Len(resp.flat)
    /\ \A k \in 1..Len(resp.flat) :
         Occurrences(out, resp.flat[k].id) = Occurrences(resp.flat, resp.flat[k].id)
    /\ \A a, b \in 1..Len(out) : out[b].parent_id = out[a].id => a < b

(* ------------------------------ read claims -------------------------- *)

ReadAnswer == resp.op = "GET_TREE" /\ resp.type = "OK"

\* ids of the nodes nested below a node of the answer, at any depth
RECURSIVE NestedIds(_)
NestedIds(node) ==
  {node.replies[i].id : i \in 1..Len(node.replies)} \cup
  UNION {NestedIds(node.replies[i]) : i \in 1..Len(node.replies)}

\* C5: under every root of the page, every published reply below it at any
\* depth is nested in the answer.
C5_FullSubtrees ==
  ReadAnswer =>
    \A i \in 1..Len(resp.comments) :
      \A c \in comments :
        (c.is_published /\ c.id # resp.comments[i].id
           /\ c.id \in Below(comments, {resp.comments[i].id}))
          => c.id \in NestedIds(resp.comments[i])

InOrder(a, b, sort) == IF sort = "newest" THEN a >= b ELSE a <= b

RECURSIVE SortedForest(_, _)
SortedForest(forest, sort) ==
  /\ \A i \in 1..(Len(forest) - 1) :
       InOrder(forest[i].created_at, forest[i + 1].created_at, sort)
  /\ \A i \in 1..Len(forest) : SortedForest(forest[i].replies, sort)

\* C8: in the answer tree, the root list and every replies list have
\* created_at non-increasing for sort=newest, non-decreasing for sort=oldest.
C8_SortConsistency == ReadAnswer => SortedForest(resp.comments, SortOf(resp.q))

\* a root with two replies of different age, newest first
C8_Witness ==
  /\ ReadAnswer /\ SortOf(resp.q) = "newest"
  /\ \E i \in 1..Len(resp.comments) :
       /\ Len(resp.comments[i].replies) = 2
       /\ resp.comments[i].replies[1].created_at > resp.comments[i].replies[2].created_at

\* orders of the post's published top-level comments by created_at
TopLevelOrders(q) ==
  OrderBy(NoJoin(TopLevel(comments, q.post_id)), OrderDirection(SortOf(q)))

\* C9: the root list is the slice [(page-1)*limit, page*limit) of the post's
\* published top-level comments in created_at order; it holds no reply and at
\* most limit entries.
C9_TopLevelSlice ==
  ReadAnswer =>
    LET q == resp.q
        ids == [i \in 1..Len(resp.comments) |-> resp.comments[i].id] IN
    /\ \E ord \in TopLevelOrders(q) :
         LET slice == LimitOffset(ord, LimitOf(q), (PageOf(q) - 1) * LimitOf(q)) IN
         ids = [i \in 1..Len(slice) |-> slice[i].c.id]
    /\ \A i \in 1..Len(resp.comments) : resp.comments[i].parent_id = NULL
    /\ Len(resp.comments) <= LimitOf(q)

IsReplyRow(store, id) == HasComment(store, id) /\ FindById(store, id).parent_id # NULL

\* this step adds a reply or removes one
ReplyAddedOrRemoved ==
  \/ resp'.op = "POST" /\ resp'.type = "CREATED" /\ resp'.parent_id # NULL
  \/ resp'.op = "DELETE" /\ resp'.type = "OK" /\ IsReplyRow(comments, resp'.id)

PaginationRight ==
  ReadAnswer =>
    LET g == resp.pagination
        total == Cardinality({c \in comments :
                   c.post_id = resp.q.post_id /\ c.is_published /\ c.parent_id = NULL}) IN
    /\ g.total_count = total
    /\ g.total_pages * g.limit >= total
    /\ g.total_pages > 0 => (g.total_pages - 1) * g.limit < total
    /\ g.total_pages >= 0
    /\ g.has_next_page = (PageOf(resp.q) < g.total_pages)
    /\ g.has_prev_page = (PageOf(resp.q) > 1)

\* C10: total_count is the number of published top-level comments of the
\* post, total_pages = ceil(total_count / limit), has_next_page = (page <
\* total_pages), has_prev_page = (page > 1), and adding or removing a reply
\* changes none of them for any request.
C10_PaginationTopLevel ==
  /\ []PaginationRight
  /\ [][ReplyAddedOrRemoved
          => \A q \in ReadQueries :
               (QueryValid(q) /\ q.post_id \in Posts)
                 => Pagination(comments', q) = Pagination(comments, q)]_vars

\* two top-level comments and a reply, read one per page
C10_Witness ==
  /\ ReadAnswer
  /\ resp.pagination.total_count = 2 /\ resp.pagination.limit = 1
  /\ resp.pagination.total_pages = 2 /\ resp.pagination.has_next_page
  /\ \E c \in comments : c.post_id = resp.q.post_id /\ c.parent_id # NULL

(* ------- page specification: tree reads of posts with many comments -- *)

\* numbers of top-level comments on post 1: few, and around the largest limit
PageTotals == {0, 1, 2, 3, MaxPageLimit - 1, MaxPageLimit, MaxPageLimit + 1}

\* the store after n accepted POSTs of top-level comments on post 1, one per
\* clock value
PageStore(n) == {NewComment(k, 1, NULL, TextA, k) : k \in 1..n}

InitPage ==
  \E n \in PageTotals :
    /\ comments = PageStore(n)
    /\ media = {}
    /\ reactions = {}
    /\ nextId = n + 1
    /\ nextMediaId = 1
    /\ now = n
    /\ resp = NoResp
    /\ inflight = {}
    /\ card = NoCard

PageQueries ==
  {Query(1, "oldest", l, g) : l \in {1, 2, MaxPageLimit, Absent}, g \in {1, 2, Absent}}
  \cup {Query(1, "newest", MaxPageLimit, 1), Query(1, "random", 1, 1),
        Query(1, "oldest", MaxPageLimit + 1, 1), Query(1, "oldest", 1, 0)}

PageGet == \E q \in PageQueries : GetPostComments(q)

NextPage == PageGet

SpecPage == InitPage /\ [][NextPage]_vars

(* --------------------------- pagination boundary --------------------- *)

\* published top-level comments of the post the answer is about
PublishedTopLevel ==
  {c \in comments : c.post_id = resp.q.post_id /\ c.is_published /\ c.parent_id = NULL}

\* C11: has_next_page is true exactly when page * limit is smaller than the
\* number of published top-level comments of the post; limit=100, page=1 over
\* exactly 100 of them gives false, limit=1, page=1 over 2 or more gives true.
C11_HasNextBoundary ==
  ReadAnswer =>
    LET n == Cardinality(PublishedTopLevel)
        g == resp.pagination IN
    /\ g.has_next_page = (PageOf(resp.q) * LimitOf(resp.q) < n)
    /\ (resp.q.limit = 100 /\ resp.q.page = 1 /\ n = 100) => ~g.has_next_page
    /\ (resp.q.limit = 1 /\ resp.q.page = 1 /\ n >= 2) => g.has_next_page

\* the page of 100 over exactly 100 top-level comments has just been read
C11_Witness ==
  /\ ReadAnswer
  /\ resp.q.limit = 100 /\ resp.q.page = 1
  /\ Cardinality(PublishedTopLevel) = 100
  /\ Len(resp.comments) = 100
  /\ ~resp.pagination.has_next_page

(* ----- moderated specification: stores holding unpublished comments -- *)

\* most rows of a moderated store
MaxModerated == 3

\* comments 1..n of post 1, each a root or a reply to an earlier one, each
\* published or not (is_published is a column no comment route writes)
ModeratedStores ==
  UNION {{{[id |-> k, post_id |-> 1, parent_id |-> par[k], content |-> TextA,
            is_published |-> pub[k], created_at |-> 0, updated_at |-> 0] : k \in 1..n} :
          par \in {f \in [1..n -> 0..n] : \A k \in 1..n : f[k] < k},
          pub \in [1..n -> BOOLEAN]} : n \in 0..MaxModerated}

InitModerated ==
  /\ comments \in ModeratedStores
  /\ media = {}
  /\ reactions = {}
  /\ nextId = Cardinality(comments) + 1
  /\ nextMediaId = 1
  /\ now = 0
  /\ resp = NoResp
  /\ inflight = {}
  /\ card = NoCard

ModeratedDelete == \E id \in LiveIds : DeleteComment(id)

ModeratedGet ==
  \E q \in {Query(1, "absent", Absent, Absent), Query(1, "newest", 1, 1)} :
    GetPostComments(q)

ModeratedReplies ==
  \E id \in IdInputs, sort \in {"absent", "newest"}, limit \in {Absent, 1, 0} :
    GetReplies(id, sort, limit)

NextModerated == ModeratedDelete \/ ModeratedGet \/ ModeratedReplies

SpecModerated == InitModerated /\ [][NextModerated]_vars

(* ------------------------- unpublished comments ---------------------- *)

IsPublished(store, id) == HasComment(store, id) /\ FindById(store, id).is_published

RECURSIVE ForestIds(_)
ForestIds(forest) ==
  {forest[i].id : i \in 1..Len(forest)} \cup
  UNION {ForestIds(forest[i].replies) : i \in 1..Len(forest)}

\* no unpublished comment in the answers of the two reads, nor in their counts
UnpublishedNotRead ==
  /\ ReadAnswer =>
       /\ \A id \in ForestIds(resp.comments) : IsPublished(comments, id)
       /\ resp.pagination.total_count = Cardinality(PublishedTopLevel)
  /\ (resp.op = "GET_REPLIES" /\ resp.type = "OK") =>
       /\ \A k \in 1..Len(resp.replies) : IsPublished(comments, resp.replies[k].id)
       /\ resp.total_count = Len(resp.replies)

\* C12: no comment with is_published = false appears in the tree of GET
\* /post/:postId or in GET /:id/replies, and neither total_count nor the reply
\* count of the deletion message counts an unpublished comment.
C12_UnpublishedInvisible ==
  /\ []UnpublishedNotRead
  /\ [][DeleteSucceeds
          => resp'.replyCount =
               Cardinality({c \in ChildrenOf(comments, resp'.id) : c.is_published})]_vars

(* --------------------------- deletion message ------------------------ *)

TooLong == <<Run("a", MaxContentLen + 1)>>

FailContents == {TextA, <<>>, TooLong}

FailPost ==
  \E post_id \in PostIdInputs, parent_id \in {NULL} \cup IdInputs,
     content \in FailContents :
    /\ PostOutcome(comments, post_id, content, parent_id) = "CREATED"
         => nextId <= MaxChainIds /\ ThreadShaped(post_id, parent_id) /\ post_id = 1
    /\ PostComment(post_id, content, parent_id)

FailDelete == \E id \in IdInputs : DeleteComment(id)

NextFail == FailPost \/ FailDelete

SpecFail == Init /\ [][NextFail]_vars

(* ------------------------------ fail fast ---------------------------- *)

PostErrors == {"VALIDATION_ERROR", "NOT_FOUND", "INVALID_PARENT", "MAX_DEPTH_EXCEEDED"}

\* everything the request would have to satisfy for a row to be inserted
AllChecksPass ==
  /\ ContentValid(resp'.content)
  /\ resp'.post_id \in Posts
  /\ resp'.parent_id # NULL =>
       /\ HasComment(comments, resp'.parent_id)
       /\ FindById(comments, resp'.parent_id).post_id = resp'.post_id
       /\ Hops(comments, resp'.parent_id) < 5

\* C14: a POST answered VALIDATION_ERROR, NOT_FOUND, INVALID_PARENT or
\* MAX_DEPTH_EXCEEDED leaves the store as it was, and a POST that changes the
\* store has passed every check.
C14_FailFast ==
  [][resp'.op = "POST"
       => /\ resp'.type \in PostErrors
               => <<comments, media, reactions, nextId, nextMediaId>>' =
                    <<comments, media, reactions, nextId, nextMediaId>>
          /\ comments' # comments => AllChecksPass /\ resp'.type = "CREATED"
          /\ resp'.type \in PostErrors \cup {"CREATED"}]_vars

\* a request with empty content, a missing post and a parent 5 hops deep has
\* been rejected, and the thread is still there
C14_Witness ==
  /\ resp.op = "POST" /\ resp.type = "VALIDATION_ERROR"
  /\ resp.post_id \notin Posts
  /\ HasComment(comments, resp.parent_id)
  /\ Hops(comments, resp.parent_id) = 5
  /\ Cardinality(comments) >= 6

(* ----- edit specification: create, edit and delete with any content -- *)

\* ids handed out by the comments sequence in the edit specification
MaxEditIds == 2

Blank == <<Run(" ", 2)>>
Padded == <<Run(" ", 1), Run("a", 1), Run(" ", 1)>>
PaddedFull == <<Run(" ", 1), Run("a", MaxContentLen), Run(" ", 1)>>

PostContents == {<<>>, Blank, Padded, PaddedFull, TooLong}

PutContents == {TextB, <<>>, TooLong}

EditPost ==
  \E post_id \in PostIdInputs, parent_id \in {NULL} \cup IdInputs,
     content \in PostContents :
    /\ PostOutcome(comments, post_id, content, parent_id) = "CREATED"
         => nextId <= MaxEditIds
    /\ PostComment(post_id, content, parent_id)

EditPut == \E id \in IdInputs, content \in PutContents : PutComment(id, content)

EditDelete == \E id \in IdInputs : DeleteComment(id)

NextEdit == EditPost \/ EditPut \/ EditDelete \/ Tick

SpecEdit == Init /\ [][NextEdit]_vars

StoreUnchanged ==
  <<comments, media, reactions, nextId, nextMediaId>>' =
    <<comments, media, reactions, nextId, nextMediaId>>

(* ------------------------ validation comes first --------------------- *)

\* characters of s that are not spaces
Visible(s) == {k \in 1..Len(s) : s[k].ch # " " /\ s[k].n > 0}

\* s is empty once trimmed, or its trimmed text is longer than 2000 characters
EmptyOrTooLong(s) ==
  \/ Visible(s) = {}
  \/ LET first == CHOOSE k \in Visible(s) : \A j \in Visible(s) : k <= j
         last == CHOOSE k \in Visible(s) : \A j \in Visible(s) : k >= j IN
     StrLen(SubSeq(s, first, last)) > 2000

\* C15: a POST whose content is empty after trimming or longer than 2000
\* characters after trimming is answered 400 VALIDATION_ERROR whether or not
\* its post and parent exist, having made no lookup and no change.
C15_ValidationFirst ==
  [][(resp'.op = "POST" /\ EmptyOrTooLong(resp'.content))
       => /\ resp'.type = "VALIDATION_ERROR" /\ resp'.status = 400
          /\ resp'.lookups = <<>>
          /\ StoreUnchanged]_vars

\* an oversized comment for a missing post and a missing parent was rejected
C15_Witness ==
  /\ resp.op = "POST" /\ resp.type = "VALIDATION_ERROR"
  /\ resp.content = TooLong
  /\ resp.post_id \notin Posts
  /\ resp.parent_id # NULL /\ ~HasComment(comments, resp.parent_id)
  /\ resp.lookups = <<>>

(* --------------------------- missing references ---------------------- *)

NotFoundAnswer == resp'.type = "NOT_FOUND" /\ resp'.status = 404 /\ StoreUnchanged

\* this step is a request: the clock moves between requests only
RequestStep == now' = now

PostMissingReference ==
  /\ RequestStep /\ resp'.op = "POST"
  /\ \/ resp'.post_id \notin Posts
     \/ resp'.parent_id # NULL /\ ~HasComment(comments, resp'.parent_id)

PutMissing == RequestStep /\ resp'.op = "PUT" /\ ~HasComment(comments, resp'.id)

DeleteMissing == RequestStep /\ resp'.op = "DELETE" /\ ~HasComment(comments, resp'.id)

\* C16 as stated: a POST whose post_id names no post, or whose parent_id names
\* no comment, and a PUT or DELETE of a comment that does not exist are
\* answered 404 NOT_FOUND and leave the store unchanged.
C16_Original ==
  [][(PostMissingReference \/ PutMissing \/ DeleteMissing) => NotFoundAnswer]_vars

\* C16 amended: the same for a DELETE and for a POST or PUT whose content
\* passes validation; with invalid content the store is unchanged as well,
\* and the answer is 400 VALIDATION_ERROR.
C16_MissingReferences ==
  [][(PostMissingReference \/ PutMissing \/ DeleteMissing)
       => /\ StoreUnchanged
          /\ (resp'.op = "DELETE" \/ ~EmptyOrTooLong(resp'.content)) => NotFoundAnswer
          /\ (resp'.op # "DELETE" /\ EmptyOrTooLong(resp'.content))
               => resp'.type = "VALIDATION_ERROR"]_vars

\* a reply to a comment that does not exist, on an existing post that has
\* comments, was answered NOT_FOUND
C16_Witness ==
  /\ resp.op = "POST" /\ resp.type = "NOT_FOUND" /\ resp.status = 404
  /\ resp.post_id \in Posts
  /\ resp.parent_id # NULL /\ ~HasComment(comments, resp.parent_id)
  /\ \E c \in comments : c.post_id = resp.post_id

(* ------------------------- parent links stay ------------------------- *)

PutSucceeds == RequestStep /\ resp'.op = "PUT" /\ resp'.type = "OK" /\ HasComment(comments, resp'.id)

\* C17: no step changes the parent_id or post_id of a comment that stays in
\* the store, and a successful PUT replaces the addressed comment by one that
\* differs at most in content and updated_at, leaving every other row as is.
C17_ParentImmutable ==
  /\ [][\A c \in comments : \A d \in comments' :
          d.id = c.id => d.parent_id = c.parent_id /\ d.post_id = c.post_id]_vars
  /\ [][PutSucceeds
          => LET c == FindById(comments, resp'.id) IN
             /\ \E d \in comments' :
                  /\ comments' \ {d} = comments \ {c}
                  /\ [d EXCEPT !.content = c.content, !.updated_at = c.updated_at] = c
                  /\ d.content = Trim(resp'.content)
             /\ <<media, reactions, nextId, nextMediaId>>' =
                  <<media, reactions, nextId, nextMediaId>>]_vars

\* a reply has been edited later than it was created, next to its parent
C17_Witness ==
  /\ resp.op = "PUT" /\ resp.type = "OK"
  /\ \E c \in comments :
       /\ c.id = resp.id /\ c.parent_id # NULL
       /\ c.content = TextB /\ c.updated_at > c.created_at
       /\ HasComment(comments, c.parent_id)

(* ---- race specification: replies in flight while comments are deleted *)

\* requests between their checks and their insert at once
MaxInflight == 1

RaceValidate ==
  \E post_id \in Posts, parent_id \in {NULL} \cup IdInputs :
    /\ PostOutcome(comments, post_id, TextA, parent_id) = "CREATED"
         => Cardinality(inflight) < MaxInflight /\ nextId <= MaxComments
    /\ PostValidate(post_id, TextA, parent_id)

RaceCreate == \E req \in inflight : PostCreate(req)

RaceDelete == \E id \in LiveIds : DeleteComment(id)

NextRace == RaceValidate \/ RaceCreate \/ RaceDelete

SpecRace == Init /\ [][NextRace]_vars

(* --------------------------- check-then-insert race ------------------ *)

NoDanglingParent ==
  \A c \in comments : c.parent_id # NULL => HasComment(comments, c.parent_id)

\* this step is the insert of a reply whose parent is no longer stored
InsertAfterParentGone ==
  /\ inflight' # inflight /\ resp'.op = "POST" /\ resp'.type # "NONE"
  /\ \E req \in inflight \ inflight' :
       req.parent_id # NULL /\ ~HasComment(comments, req.parent_id)

MaxTallyIds == 2

TallyPost ==
  \E parent_id \in {NULL} \cup LiveIds :
    /\ PostOutcome(comments, 1, TextA, parent_id) = "CREATED" => nextId <= MaxTallyIds
    /\ PostComment(1, TextA, parent_id)

TallyReact ==
  \E u \in Users, id \in IdInputs, e \in Emojis : ReactToComment(u, id, e)

TallyDelete == \E id \in LiveIds : DeleteComment(id)

TallyGet ==
  \E q \in {Query(1, "absent", Absent, Absent), Query(1, "newest", 1, 1)} :
    GetPostComments(q)

NextTally == TallyPost \/ TallyReact \/ TallyDelete \/ TallyGet

SpecTally == Init /\ [][NextTally]_vars

(* ----------------------------- reaction tallies ---------------------- *)

\* every node of a forest of answer nodes, at any depth
RECURSIVE ForestNodes(_)
ForestNodes(forest) ==
  {[id |-> forest[i].id, reaction_counts |-> forest[i].reaction_counts] :
     i \in 1..Len(forest)} \cup
  UNION {ForestNodes(forest[i].replies) : i \in 1..Len(forest)}

RowsWith(id, name) == {r \in reactions : r.comment_id = id /\ r.emoji_name = name}

\* C19: every node of the answered tree carries one reaction_counts entry for
\* each emoji_name with at least one reaction row on that comment, with the
\* number of those rows as count, and no other entry.
C19_ReactionTallies ==
  ReadAnswer =>
    \A node \in ForestNodes(resp.comments) :
      /\ \A e \in node.reaction_counts :
           e.count >= 1 /\ e.count = Cardinality(RowsWith(node.id, e.emoji_name))
      /\ \A r \in reactions :
           r.comment_id = node.id =>
             Cardinality({e \in node.reaction_counts : e.emoji_name = r.emoji_name}) = 1
      /\ (\A r \in reactions : r.comment_id # node.id) => node.reaction_counts = {}

\* a root with the same emoji from two users, whose reply has two emojis
C19_Witness ==
  /\ ReadAnswer
  /\ \E i \in 1..Len(resp.comments) :
       /\ \E e \in resp.comments[i].reaction_counts : e.count = 2
       /\ Len(resp.comments[i].replies) = 1
       /\ Cardinality(resp.comments[i].replies[1].reaction_counts) = 2

(* --------------------------- deterministic reads --------------------- *)

\* this step reads the tree with the request of the answer before it, and the
\* store is as it was when that answer was made
SameReadAgain ==
  /\ ReadAnswer
  /\ resp'.op = "GET_TREE" /\ resp'.type = "OK" /\ resp'.q = resp.q
  /\ <<comments, media, reactions>>' = <<comments, media, reactions>>

\* C20: two reads of the tree with the same page, limit and sort against the
\* same store contents return the same tree, siblings with equal created_at
\* in the same order.
C20_DeterministicRead == [][SameReadAgain => resp'.comments = resp.comments]_vars

(* ----------------------- query validation comes first ---------------- *)

\* a limit outside [1,100], a page below 1 or a sort other than newest and
\* oldest was sent
BadQuery(q) ==
  \/ q.limit # Absent /\ (q.limit < 1 \/ q.limit > 100)
  \/ q.page # Absent /\ q.page < 1
  \/ q.sort \notin {"absent", "newest", "oldest"}

\* C21: a tree read with limit outside [1,100], page < 1 or a sort other than
\* newest and oldest is answered 400 VALIDATION_ERROR, having read nothing
\* from the store, with no comment in the answer.
C21_QueryValidationFirst ==
  (resp.op = "GET_TREE" /\ BadQuery(resp.q))
    => /\ resp.type = "VALIDATION_ERROR" /\ resp.status = 400
       /\ resp.lookups = <<>>
       /\ resp.comments = <<>>

\* limit=101 on a post with 101 top-level comments was rejected
C21_Witness ==
  /\ resp.op = "GET_TREE" /\ resp.type = "VALIDATION_ERROR"
  /\ resp.q.limit = 101
  /\ Cardinality(TopLevel(comments, resp.q.post_id)) = 101
  /\ resp.lookups = <<>> /\ resp.comments = <<>>

(* ------------- POST /api/comments with the fetch after the insert ----- *)

MaxFetchIds == 3

PostCommentFetchRollback(post_id, content, parent_id, fetchFails) ==
  LET checks == PostOutcome(comments, post_id, content, parent_id)
      type == IF checks = "CREATED" /\ fetchFails THEN "INTERNAL_ERROR" ELSE checks IN
  /\ IF type = "CREATED"
     THEN /\ comments' = comments \cup
                {NewComment(nextId, post_id, parent_id, Trim(content), now)}
          /\ nextId' = nextId + 1
     ELSE UNCHANGED <<comments, nextId>>
  /\ resp' = [op |-> "POST", type |-> type, status |-> StatusOf(type),
              post_id |-> post_id, parent_id |-> parent_id, content |-> content,
              id |-> IF type = "CREATED" THEN nextId ELSE NULL,
              inserted |-> IF type = "INTERNAL_ERROR" THEN nextId ELSE NULL]
  /\ UNCHANGED <<media, reactions, nextMediaId, now, inflight, card>>

\* the whole handler: the checks, Comment.create, then the SELECT of the new
\* row with its author, which either answers 201 or throws into the catch
\* block; `inserted` is the id Comment.create returned before the throw
PostCommentFetch(post_id, content, parent_id, fetchFails) ==
  LET checks == PostOutcome(comments, post_id, content, parent_id)
      type == IF checks = "CREATED" /\ fetchFails THEN "INTERNAL_ERROR" ELSE checks IN
  /\ IF checks = "CREATED"
     THEN /\ comments' = comments \cup
                {NewComment(nextId, post_id, parent_id, Trim(content), now)}
          /\ nextId' = nextId + 1
     ELSE UNCHANGED <<comments, nextId>>
  /\ resp' = [op |-> "POST", type |-> type, status |-> StatusOf(type),
              post_id |-> post_id, parent_id |-> parent_id, content |-> content,
              id |-> IF type = "CREATED" THEN nextId ELSE NULL,
              inserted |-> IF type = "INTERNAL_ERROR" THEN nextId ELSE NULL]
  /\ UNCHANGED <<media, reactions, nextMediaId, now, inflight, card>>

\* requests whose fetch fails carry TextB, the others TextA
FetchPost ==
  \E post_id \in PostIdInputs, parent_id \in {NULL} \cup IdInputs, fetchFails \in BOOLEAN :
    LET content == IF fetchFails THEN TextB ELSE TextA IN
    /\ PostOutcome(comments, post_id, content, parent_id) = "CREATED"
         => nextId <= MaxFetchIds /\ post_id = 1
    /\ PostCommentFetch(post_id, content, parent_id, fetchFails)

FetchDelete == \E id \in LiveIds : DeleteComment(id)

\* GET /api/comments/:id: the row of the comment, or 404
GetComment(id) ==
  LET type == IF HasComment(comments, id) THEN "OK" ELSE "NOT_FOUND" IN
  /\ resp' = [op |-> "GET_ONE", type |-> type, status |-> StatusOf(type), id |-> id,
              data |-> IF type = "OK" THEN FindById(comments, id) ELSE NoResp]
  /\ UNCHANGED <<comments, media, reactions, nextId, nextMediaId, now, inflight, card>>

FetchGet == \E id \in IdInputs : GetComment(id)

NextFetch == FetchPost \/ FetchDelete \/ FetchGet

SpecFetch == Init /\ [][NextFetch]_vars

\* this step is a POST that passed its checks and whose fetch then failed
FetchFailed ==
  /\ resp'.op = "POST"
  /\ resp'.content = TextB
  /\ PostOutcome(comments, resp'.post_id, resp'.content, resp'.parent_id) = "CREATED"

\* C22: when the insert of POST /api/comments succeeds and the fetch of the
\* new comment with its author fails, the answer is HTTP 500 and the new row
\* is stored all the same; a later read of a stored comment by its id, those
\* rows included, answers it.
C22_InsertSurvivesFailedFetch ==
  /\ [][FetchFailed
          => /\ resp'.status = 500 /\ resp'.type = "INTERNAL_ERROR"
             /\ comments' = comments \cup
                  {NewComment(nextId, resp'.post_id, resp'.parent_id,
                              Trim(resp'.content), now)}
             /\ HasComment(comments', resp'.inserted)]_vars
  /\ [](resp.op = "GET_ONE"
          => IF HasComment(comments, resp.id)
             THEN resp.status = 200 /\ resp.data = FindById(comments, resp.id)
             ELSE resp.status = 404)

\* a read of one comment answers the reply whose creation was answered 500
C22_Witness ==
  /\ resp.op = "GET_ONE" /\ resp.type = "OK"
  /\ resp.data.content = TextB /\ resp.data.parent_id # NULL
  /\ resp.data \in comments

(* ------------------------------ depth computation ------------------- *)

DepthIsHops ==
  \A id \in IdInputs \cup {NULL} :
    /\ getCommentDepth(comments, id) = Hops(comments, id)
    /\ ~HasComment(comments, id) => getCommentDepth(comments, id) = 0

\* the depth walk of a POST leaves every stored row as it was
DepthWalkReadsOnly ==
  (resp'.op = "POST" /\ resp'.lookups # <<>>
     /\ resp'.lookups[Len(resp'.lookups)] = "Comment.getCommentDepth")
    => /\ \A c \in comments : c \in comments'
       /\ resp'.type # "CREATED" => comments' = comments

NoDepthCheck ==
  \A k \in 1..Len(resp'.lookups) : resp'.lookups[k] # "Comment.getCommentDepth"

\* the claim as written: a request without parent_id for an existing post is
\* accepted whatever its content
C23_Original ==
  /\ []DepthIsHops
  /\ [][DepthWalkReadsOnly]_vars
  /\ [][(resp'.op = "POST" /\ resp'.parent_id = NULL /\ resp'.post_id \in Posts)
          => resp'.type = "CREATED" /\ NoDepthCheck]_vars

\* C23: getCommentDepth(id) is the number of parent_id hops from id up to
\* the first comment without parent, 0 for an absent id, and changes no row;
\* a POST without parent_id makes no depth check and is accepted when its
\* content is valid and its post exists.
C23_DepthIsHopCount ==
  /\ []DepthIsHops
  /\ [][DepthWalkReadsOnly]_vars
  /\ [][(resp'.op = "POST" /\ resp'.parent_id = NULL /\ resp'.post_id \in Posts)
          => /\ NoDepthCheck
             /\ ContentValid(resp'.content)
                  => /\ resp'.type = "CREATED"
                     /\ HasComment(comments', resp'.id)
                     /\ getCommentDepth(comments', resp'.id) = 0]_vars

\* the walk from a comment five hops down counted 5 and the reply to it was
\* refused, next to an absent id whose depth is 0
C23_Witness ==
  /\ resp.op = "POST" /\ resp.type = "MAX_DEPTH_EXCEEDED"
  /\ getCommentDepth(comments, resp.parent_id) = 5
  /\ Hops(comments, resp.parent_id) = 5
  /\ getCommentDepth(comments, nextId) = 0

(* ------------------------------- replies listing -------------------- *)

MaxReplyIds == 3

RepliesPost ==
  \E parent_id \in {NULL} \cup LiveIds :
    /\ PostOutcome(comments, 1, TextA, parent_id) = "CREATED" => nextId <= MaxReplyIds
    /\ PostComment(1, TextA, parent_id)

RepliesReact ==
  /\ Cardinality(reactions) < MaxReactions \/ \E r \in reactions : r.user_id = 1
  /\ \E id \in LiveIds, e \in Emojis : ReactToComment(1, id, e)

RepliesGet ==
  \E id \in IdInputs, sort \in {"absent", "newest"}, limit \in {Absent, 1} :
    GetReplies(id, sort, limit)

NextReplies == RepliesPost \/ RepliesReact \/ RepliesGet \/ Tick

SpecReplies == Init /\ [][NextReplies]_vars

\* the published comments below id, at any depth
PublishedBelow(store, id) ==
  {c \in Subtree(store, id) : c.id # id /\ c.is_published}

\* C24: GET /api/comments/:id/replies answers 404 for a missing comment and
\* otherwise a flat list of the published replies below :id, immediate and
\* deeper, cut at limit, each once, ordered by created_at in the requested
\* direction, each with its reaction_counts, and total_count is its length.
C24_RepliesListing ==
  (resp.op = "GET_REPLIES" /\ resp.type # "VALIDATION_ERROR")
    => IF ~HasComment(comments, resp.id)
       THEN resp.status = 404 /\ resp.type = "NOT_FOUND"
       ELSE LET list == resp.replies
                below == PublishedBelow(comments, resp.id) IN
            /\ resp.status = 200
            /\ Len(list) = Min(resp.limit, Cardinality(below))
            /\ \A k \in 1..Len(list) :
                 /\ list[k].id \in {c.id : c \in below}
                 /\ list[k].reaction_counts = ReactionCounts(list[k].id)
            /\ \A j, k \in 1..Len(list) : j < k => list[j].id # list[k].id
            /\ \A j, k \in 1..Len(list) :
                 j < k => IF resp.sort = "newest"
                          THEN list[j].created_at >= list[k].created_at
                          ELSE list[j].created_at <= list[k].created_at
            /\ resp.total_count = Len(list)

(* ------------------------------ reaction toggles --------------------- *)

ReactionRow(u, T, e) ==
  [user_id |-> u, comment_id |-> T, emoji_name |-> e.name, emoji_unicode |-> e.unicode]

\* this step is an answered toggle of user u on comment T with emoji e
ToggleStep(u, T, e) ==
  /\ resp'.op = "REACT" /\ resp'.type = "OK"
  /\ resp'.user_id = u /\ resp'.id = T /\ resp'.emoji = e

\* C25: a toggle of user U on target T with emoji E adds one reaction when U
\* has none on T, deletes U's reaction when it has the same emoji_unicode, and
\* rewrites it in place to E when the emoji differs, the number of rows
\* unchanged; the same emoji toggled twice from no reaction leaves no
\* reaction.
C25_ToggleTransitions ==
  [][\A u \in Users, T \in IdInputs, e \in Emojis :
       ToggleStep(u, T, e) =>
         LET mine == UserCommentReactions(u, T) IN
         /\ Cardinality(mine) <= 1
         /\ mine = {}
              => /\ resp'.action = "added"
                 /\ reactions' = reactions \cup {ReactionRow(u, T, e)}
                 /\ Cardinality(reactions') = Cardinality(reactions) + 1
                 /\ toggleCommentReaction(u, T, e, UserCommentReactions(u, T))'
                      = [action |-> "removed", rows |-> reactions]
         /\ (mine # {} /\ \A r \in mine : r.emoji_unicode = e.unicode)
              => /\ resp'.action = "removed"
                 /\ reactions' = reactions \ mine
         /\ (mine # {} /\ \A r \in mine : r.emoji_unicode # e.unicode)
              => /\ resp'.action = "updated"
                 /\ reactions' = (reactions \ mine) \cup {ReactionRow(u, T, e)}
                 /\ Cardinality(reactions') = Cardinality(reactions)]_vars

\* a user's reaction was rewritten to the other emoji next to the other
\* user's reaction on the same comment
C25_Witness ==
  /\ resp.op = "REACT" /\ resp.action = "updated"
  /\ UserCommentReactions(resp.user_id, resp.id)
       = {ReactionRow(resp.user_id, resp.id, resp.emoji)}
  /\ \E r \in reactions : r.comment_id = resp.id /\ r.user_id # resp.user_id

(* --------------------------- termination of the walk ----------------- *)

\* the id reached from id after at most k parent_id hops; NULL past a root
RECURSIVE Up(_, _, _)
Up(store, id, k) ==
  IF k = 0 \/ id = NULL \/ ~HasComment(store, id) THEN id
  ELSE Up(store, FindById(store, id).parent_id, k - 1)

\* one row per id, every parent stored, and no parent_id chain that returns
\* to itself
IsForest(store) ==
  /\ \A c, d \in store : c.id = d.id => c = d
  /\ \A c \in store : c.parent_id # NULL => HasComment(store, c.parent_id)
  /\ \A c \in store : Up(store, c.id, Cardinality(store)) = NULL

\* C26: in every reachable state the parent_id relation is a forest, so the
\* walk of getCommentDepth ends, and from any stored or absent id it makes at
\* most 6 comment reads.
C26_WalkTerminates ==
  /\ IsForest(comments)
  /\ \A id \in IdInputs \cup {NULL} :
       /\ getCommentDepthReads(comments, id) <= 6
       /\ Up(comments, id, 6) = NULL \/ ~HasComment(comments, id)
       /\ HasComment(comments, id)
            => getCommentDepthReads(comments, id) = getCommentDepth(comments, id) + 1

\* a reply to a comment five hops down was refused after a walk of 6 reads
C26_Witness ==
  /\ resp.op = "POST" /\ resp.type = "MAX_DEPTH_EXCEEDED"
  /\ getCommentDepthReads(comments, resp.parent_id) = 6
  /\ IsForest(comments) /\ Cardinality(comments) >= 6

(* ------- POST /api/comments read by read, several requests at once --- *)

MaxWalkers == 2
MaxWalkIds == 7

DepthAllowedUpToFive(depth) == depth <= MaxDepth

\* `if (depth >= 5)` of the handler
DepthAllowed(depth) == depth < MaxDepth

WalkAnswer(req, type) ==
  [op |-> "POST", type |-> type, status |-> StatusOf(type),
   post_id |-> req.post_id, parent_id |-> req.parent_id, depth |-> req.depth]

\* the handler up to its first comment read: Post.findById
WalkStart(post_id, parent_id) ==
  /\ inflight' = inflight \cup
       {[post_id |-> post_id, parent_id |-> parent_id,
         pc |-> IF parent_id = NULL THEN "create" ELSE "findParent",
         cur |-> parent_id, depth |-> 0]}
  /\ UNCHANGED <<comments, media, reactions, nextId, nextMediaId, now, resp, card>>

\* Comment.findById(parent_id) and the two checks on the parent
WalkFindParent(req) ==
  /\ req \in inflight /\ req.pc = "findParent"
  /\ IF ~HasComment(comments, req.parent_id)
     THEN /\ resp' = WalkAnswer(req, "NOT_FOUND")
          /\ inflight' = inflight \ {req}
     ELSE IF FindById(comments, req.parent_id).post_id # req.post_id
     THEN /\ resp' = WalkAnswer(req, "INVALID_PARENT")
          /\ inflight' = inflight \ {req}
     ELSE /\ inflight' = (inflight \ {req}) \cup {[req EXCEPT !.pc = "walk"]}
          /\ UNCHANGED resp
  /\ UNCHANGED <<comments, media, reactions, nextId, nextMediaId, now, card>>

\* one Comment.findByPk of getCommentDepth, and the depth check when the
\* walk ends
WalkRead(req) ==
  /\ req \in inflight /\ req.pc = "walk"
  /\ IF HasComment(comments, req.cur) /\ FindById(comments, req.cur).parent_id # NULL
     THEN /\ inflight' = (inflight \ {req}) \cup
                 {[req EXCEPT !.cur = FindById(comments, req.cur).parent_id,
                              !.depth = req.depth + 1]}
          /\ UNCHANGED resp
     ELSE IF DepthAllowed(req.depth)
     THEN /\ inflight' = (inflight \ {req}) \cup {[req EXCEPT !.pc = "create"]}
          /\ UNCHANGED resp
     ELSE /\ resp' = WalkAnswer(req, "MAX_DEPTH_EXCEEDED")
          /\ inflight' = inflight \ {req}
  /\ UNCHANGED <<comments, media, reactions, nextId, nextMediaId, now, card>>

\* Comment.create and the answer: 201, or 500 when the foreign key on
\* parent_id rejects the INSERT
WalkCreate(req) ==
  LET ok == ForeignKeyHolds(comments, req) IN
  /\ req \in inflight /\ req.pc = "create"
  /\ inflight' = inflight \ {req}
  /\ IF ok
     THEN /\ comments' = comments \cup
                {NewComment(nextId, req.post_id, req.parent_id, TextA, now)}
          /\ nextId' = nextId + 1
     ELSE UNCHANGED <<comments, nextId>>
  /\ resp' = WalkAnswer(req, IF ok THEN "CREATED" ELSE "INTERNAL_ERROR")
  /\ UNCHANGED <<media, reactions, nextMediaId, now, card>>

\* new requests reply to a comment without replies, or open the thread
WalkerStart ==
  \E parent_id \in {NULL} \cup LiveIds :
    /\ Cardinality(inflight) < MaxWalkers
    /\ nextId + Cardinality(inflight) <= MaxWalkIds
    /\ IF parent_id = NULL THEN comments = {} ELSE ChildrenOf(comments, parent_id) = {}
    /\ WalkStart(1, parent_id)

WalkerFindParent == \E req \in inflight : WalkFindParent(req)

WalkerRead == \E req \in inflight : WalkRead(req)

WalkerCreate == \E req \in inflight : WalkCreate(req)

WalkerDelete == \E id \in LiveIds : DeleteComment(id)

NextWalk == WalkerStart \/ WalkerFindParent \/ WalkerRead \/ WalkerCreate \/ WalkerDelete

SpecWalk == Init /\ [][NextWalk]_vars

\* C27: with the reads of the depth walk, the checks and the insert of several
\* POST requests interleaved with each other and with deletes, no stored
\* comment is more than 5 parent_id hops below its root.
C27_DepthUnderInterleaving ==
  /\ IsForest(comments)
  /\ \A c \in comments : Hops(comments, c.id) <= 5 /\ Up(comments, c.id, 6) = NULL

\* a walk that a delete cut short counted fewer than 5 hops below a parent
\* that had been 5 hops down, and the insert was refused; another request is
\* still in flight
C27_Witness ==
  /\ resp.op = "POST" /\ resp.type = "INTERNAL_ERROR"
  /\ resp.depth \in 1..4 /\ resp.parent_id = 6
  /\ ~HasComment(comments, resp.parent_id)
  /\ inflight # {}

(* ------------------------- one node per comment ---------------------- *)

\* C28: every comment id occurs at most once in the tree a read answers,
\* also when a comment has more than one media row.
C28_EachCommentOnce ==
  ReadAnswer =>
    LET out == Preorder(resp.comments) IN
    \A k \in 1..Len(out) : Occurrences(out, out[k].id) = 1

(* ------------- reaction toggles read and written in two steps -------- *)

MaxTogglers == 2
MaxToggleComments == 2

\* the primary key Reaction.create gives a new row: one no stored row has
\* and no request in flight still refers to
NewReactionId ==
  LET used == {r.id : r \in reactions} \cup
              UNION {{r.id : r \in req.existing} : req \in inflight} IN
  CHOOSE k \in 1..(Cardinality(used) + 1) : k \notin used

\* unique_user_comment_emoji: (user_id, comment_id, emoji_unicode)
UniqueUserCommentEmoji(rows) ==
  \A r, t \in rows :
    (r.user_id = t.user_id /\ r.comment_id = t.comment_id
       /\ r.emoji_unicode = t.emoji_unicode) => r.id = t.id

ToggleAnswer(req, type, action) ==
  [op |-> "REACT", type |-> type, status |-> StatusOf(type), id |-> req.comment_id,
   user_id |-> req.user_id, emoji |-> req.emoji, action |-> action]

\* the route up to the first write of toggleCommentReaction: the comment
\* lookup and getUserCommentReaction, whose findOne answers one of the user's
\* rows on the comment when there are several
ToggleRead(userId, commentId, emoji) ==
  LET mine == UserCommentReactions(userId, commentId)
      req == [user_id |-> userId, comment_id |-> commentId, emoji |-> emoji] IN
  /\ IF HasComment(comments, commentId)
     THEN /\ \E existing \in (IF mine = {} THEN {{}} ELSE {{r} : r \in mine}) :
               inflight' = inflight \cup
                 {[user_id |-> userId, comment_id |-> commentId, emoji |-> emoji,
                   existing |-> existing]}
          /\ UNCHANGED resp
     ELSE /\ resp' = ToggleAnswer(req, "NOT_FOUND", "none")
          /\ UNCHANGED inflight
  /\ UNCHANGED <<comments, media, reactions, nextId, nextMediaId, now, card>>

\* the write of toggleCommentReaction on the row read before, by primary
\* key: destroy, save or create; a write the unique index refuses throws and
\* is answered 500
ToggleWrite(req) ==
  LET new == [id |-> NewReactionId, user_id |-> req.user_id,
              comment_id |-> req.comment_id, emoji_name |-> req.emoji.name,
              emoji_unicode |-> req.emoji.unicode]
      old == CHOOSE r \in req.existing : TRUE
      others == {r \in reactions : r.id # old.id}
      saved == {[r EXCEPT !.emoji_name = req.emoji.name,
                          !.emoji_unicode = req.emoji.unicode] :
                  r \in reactions \ others}
      action == IF req.existing = {} THEN "added"
                ELSE IF old.emoji_unicode = req.emoji.unicode THEN "removed"
                ELSE "updated"
      rows == CASE action = "added" -> reactions \cup {new}
                [] action = "removed" -> others
                [] action = "updated" -> others \cup saved IN
  /\ req \in inflight
  /\ inflight' = inflight \ {req}
  /\ IF UniqueUserCommentEmoji(rows)
     THEN /\ reactions' = rows
          /\ resp' = ToggleAnswer(req, "OK", action)
     ELSE /\ UNCHANGED reactions
          /\ resp' = ToggleAnswer(req, "INTERNAL_ERROR", "none")
  /\ UNCHANGED <<comments, media, nextId, nextMediaId, now, card>>

TogglePost ==
  /\ nextId <= MaxToggleComments
  /\ PostComment(1, TextA, NULL)

\* the requests of one user
TogglerRead ==
  /\ Cardinality(inflight) < MaxTogglers
  /\ \E id \in IdInputs, e \in Emojis : ToggleRead(1, id, e)

TogglerWrite == \E req \in inflight : ToggleWrite(req)

NextToggle == TogglePost \/ TogglerRead \/ TogglerWrite

SpecToggle == Init /\ [][NextToggle]_vars

\* C29: however the read and the write of two toggle requests of one user on
\* one comment interleave, once both have completed there is at most one
\* reaction row of that user on that comment.
C29_OneReactionPerUserAndTarget ==
  inflight = {}
    => \A u \in Users, T \in LiveIds : Cardinality(UserCommentReactions(u, T)) <= 1

(* ------------------- PostCard: the comment list of a post ------------ *)

MaxCardComments == 7
MaxCardPage == 2

\* `limit: 5` of the comments query
PageSize == 5

CardPages == 1..MaxCardPage

\* a query of the cache without data
NoData == [ids |-> <<>>, has_next_page |-> FALSE, total_count |-> -1]

\* the useEffect on [commentsData, currentPage]
CommentsEffect(c) ==
  LET data == c.cache[c.currentPage] IN
  IF data = NoData THEN c
  ELSE [c EXCEPT !.allComments = IF c.currentPage = 1 THEN data.ids
                                  ELSE c.allComments \o data.ids,
                 !.hasMoreComments = data.has_next_page,
                 !.isLoadingMore = FALSE]

\* useQuery with `enabled: showComments`: the query of the current page is
\* fetched when it has no data or was invalidated
QueryObserver(c) ==
  IF c.showComments /\ (c.cache[c.currentPage] = NoData \/ c.currentPage \in c.stale)
  THEN [c EXCEPT !.fetching = c.fetching \cup {c.currentPage}]
  ELSE c

\* the component after a render in which the page or its data may have
\* changed: the effect runs when one of them did
Rendered(old, new) ==
  QueryObserver(
    IF new.currentPage # old.currentPage
         \/ new.cache[new.currentPage] # old.cache[old.currentPage]
    THEN CommentsEffect(new) ELSE new)

MountedCard ==
  [op |-> "mount", showComments |-> FALSE, currentPage |-> 1, allComments |-> <<>>,
   hasMoreComments |-> FALSE, isLoadingMore |-> FALSE,
   cache |-> [p \in CardPages |-> NoData], fetching |-> {}, stale |-> {}]

\* a post with one full page of comments, written at different times
InitCard ==
  /\ comments = PageStore(PageSize)
  /\ media = {}
  /\ reactions = {}
  /\ nextId = PageSize + 1
  /\ nextMediaId = 1
  /\ now = PageSize
  /\ resp = NoResp
  /\ inflight = {}
  /\ card = MountedCard

CardFrame == UNCHANGED <<comments, media, reactions, nextId, nextMediaId, now, inflight>>

\* toggleCommentsView
CardToggle ==
  LET opened == [card EXCEPT !.op = "toggle", !.currentPage = 1,
                             !.hasMoreComments = FALSE, !.showComments = TRUE]
      closed == [card EXCEPT !.op = "toggle", !.showComments = FALSE] IN
  /\ card' = Rendered(card, IF card.showComments THEN closed ELSE opened)
  /\ UNCHANGED resp
  /\ CardFrame

\* loadMoreComments, whether or not the button is enabled
CardLoadMore ==
  /\ card.currentPage < MaxCardPage
  /\ IF ~card.hasMoreComments \/ card.isLoadingMore
     THEN card' = [card EXCEPT !.op = "loadMore ignored"]
     ELSE card' = Rendered(card, [card EXCEPT !.op = "loadMore",
                                              !.isLoadingMore = TRUE,
                                              !.currentPage = card.currentPage + 1])
  /\ UNCHANGED resp
  /\ CardFrame

\* queryFn: commentsApi.getPostComments(post.id, {limit: 5, page}) reaches the
\* server
CardQuery ==
  /\ resp = NoResp
  /\ \E p \in card.fetching :
       GetPostComments(Query(1, "absent", PageSize, p))

\* the answer of a page query reaches the cache
CardArrival ==
  /\ resp.op = "GET_TREE" /\ resp.type = "OK"
  /\ LET p == resp.q.page
         data == [ids |-> [i \in 1..Len(resp.comments) |-> resp.comments[i].id],
                  has_next_page |-> resp.pagination.has_next_page,
                  total_count |-> resp.pagination.total_count] IN
     card' = Rendered(card, [card EXCEPT !.op = "arrival", !.cache[p] = data,
                                         !.fetching = card.fetching \ {p},
                                         !.stale = card.stale \ {p}])
  /\ resp' = NoResp
  /\ CardFrame

\* CommentForm submits a top-level comment, some time after the last one
CardSubmit ==
  /\ card.showComments /\ resp = NoResp
  /\ nextId <= MaxCardComments
  /\ \A c \in comments : c.created_at < now
  /\ PostComment(1, TextA, NULL)

\* onSuccess of CommentForm: invalidateQueries(['comments', 'post', post.id])
CardOnSuccess ==
  /\ resp.op = "POST" /\ resp.type = "CREATED"
  /\ card' = QueryObserver([card EXCEPT !.op = "invalidate",
                                        !.stale = {p \in CardPages : card.cache[p] # NoData}])
  /\ resp' = NoResp
  /\ CardFrame

CardTick ==
  /\ \E c \in comments : c.created_at = now
  /\ now' = now + 1
  /\ UNCHANGED <<comments, media, reactions, nextId, nextMediaId, resp, inflight, card>>

NextCard ==
  \/ CardToggle \/ CardLoadMore \/ CardQuery \/ CardArrival
  \/ CardSubmit \/ CardOnSuccess \/ CardTick

SpecCard == InitCard /\ [][NextCard]_vars

\* C30: after any sequence of opening and closing the comments, 'load more'
\* clicks, arrivals of page results and refetches after a comment was
\* created, allComments holds each comment id at most once; and a 'load
\* more' click while a page load is in flight or when has_next_page is false
\* changes nothing.
C30_NoDuplicateComments ==
  /\ [](\A j, k \in 1..Len(card.allComments) :
          j < k => card.allComments[j] # card.allComments[k])
  /\ [][(card'.op \in {"loadMore", "loadMore ignored"} /\ card' # card
           /\ (card.isLoadingMore \/ ~card.hasMoreComments))
          => /\ card'.op = "loadMore ignored"
             /\ card' = [card EXCEPT !.op = "loadMore ignored"]]_vars

====
